---- MODULE Spec2Model ----
(***************************************************************************)
(* A model of lean_tearsheet.generator.TearsheetGenerator: the loader and  *)
(* its per-instance caches, the derivation of the equity curve and of the  *)
(* return series, the benchmark alignment, and the metrics engine          *)
(* (calculate_metrics, get_drawdown_series, get_rolling_sharpe).           *)
(*                                                                         *)
(* Numbers.  A float is modelled by an exact extended rational <<n, d>>    *)
(* with d >= 0 and gcd(n, d) = 1: d > 0 is the finite value n/d, <<1, 0>>  *)
(* is +inf, <<-1, 0>> is -inf and <<0, 0>> is NaN, with the IEEE rules for *)
(* division by zero, inf - inf and 0 * inf.  Rounding is not modelled.     *)
(* Irrational results are kept exact: a square root as a sign and a        *)
(* square (RootVal), the annualised return as its base and its day count.  *)
(*                                                                         *)
(* Series.  A pandas Series is a sequence of records [t |-> instant,       *)
(* v |-> value]; an instant is a day number and a second within the day.   *)
(***************************************************************************)
EXTENDS Integers, Sequences, FiniteSets, TLC

\* ------------------------------------------------------------- bounds
\* Longest list of equity samples in the results file.
MaxLen == 4
\* Largest rolling window passed to get_rolling_sharpe.
MaxWindow == 3
\* Benchmark rows lie at the ticks 0..MaxTick.
MaxTick == 3

\* ---------------------------------------------------- program constants
\* Timedelta.days counts whole days of 86400 seconds.
SecondsPerDay == 86400
\* PeriodsPerYear for daily data: 12 months of 21 trading days.
PeriodsPerYearDaily == 12 * 21

\* periods_per_year = 365.25 * 24
PeriodsPerYear == 8766

\* Sampling instants are multiples of half a day.
TickSeconds == SecondsPerDay \div 2

\* ------------------------------------------------ extended rationals
Abs(x) == IF x < 0 THEN 0 - x ELSE x

Sgn(x) == IF x < 0 THEN 0 - 1 ELSE IF x > 0 THEN 1 ELSE 0

RECURSIVE GCD(_, _)
GCD(a, b) == IF b = 0 THEN a ELSE GCD(b, a % b)

\* The float n/d, d of either sign; d = 0 gives inf, -inf or NaN.
Norm(n, d) ==
    IF d = 0 THEN <<Sgn(n), 0>>
    ELSE LET g == GCD(Abs(n), Abs(d))
         IN  <<(Sgn(d) * n) \div g, Abs(d) \div g>>

Q(n) == <<n, 1>>
Zero == <<0, 1>>
One == <<1, 1>>
NaN == <<0, 0>>

IsNaN(x) == x = NaN
IsInf(x) == x[2] = 0 /\ x[1] # 0
IsFinite(x) == x[2] > 0

Neg(x) == <<0 - x[1], x[2]>>

Add(x, y) ==
    IF IsNaN(x) \/ IsNaN(y) THEN NaN
    ELSE IF IsInf(x) /\ IsInf(y) THEN (IF x = y THEN x ELSE NaN)
    ELSE IF IsInf(x) THEN x
    ELSE IF IsInf(y) THEN y
    ELSE Norm(x[1] * y[2] + y[1] * x[2], x[2] * y[2])

Sub(x, y) == Add(x, Neg(y))

Mul(x, y) == Norm(x[1] * y[1], x[2] * y[2])

Div(x, y) ==
    LET s == IF y[1] < 0 THEN 0 - 1 ELSE 1
    IN  Norm(s * x[1] * y[2], s * x[2] * y[1])

\* x < y as floats compare: false when either is NaN.
Lt(x, y) ==
    /\ ~IsNaN(x)
    /\ ~IsNaN(y)
    /\ IF IsInf(x) /\ IsInf(y) THEN x[1] < y[1]
       ELSE x[1] * y[2] < y[1] * x[2]

Gt(x, y) == Lt(y, x)

Le(x, y) == ~IsNaN(x) /\ ~IsNaN(y) /\ ~Lt(y, x)

\* AbsQ without taking the magnitude.
SignedQ(x) == x

\* abs(x)
AbsQ(x) == <<Abs(x[1]), x[2]>>

\* ------------------------------------------------------------- series
Index(s) == [i \in 1..Len(s) |-> s[i].t]

Values(s) == [i \in 1..Len(s) |-> s[i].v]

RECURSIVE SelectIdx(_, _)
\* The sub-series of s at the positions in keep, in order.
SelectIdx(s, keep) ==
    IF Len(s) = 0 THEN <<>>
    ELSE LET n == Len(s)
             front == SelectIdx(SubSeq(s, 1, n - 1), keep)
         IN  IF n \in keep THEN Append(front, s[n]) ELSE front

\* Series.dropna(): the entries whose value is not NaN.
DropNa(s) == SelectIdx(s, {i \in 1..Len(s) : ~IsNaN(s[i].v)})

\* PctChange without the "- 1": the price relatives v[i] / v[i-1].
PctChangeRelative(s) ==
    [i \in 1..Len(s) |->
        [t |-> s[i].t,
         v |-> IF i = 1 THEN NaN ELSE Div(s[i].v, s[i - 1].v)]]

\* Series.pct_change(): NaN first, then v[i] / v[i-1] - 1.
PctChange(s) ==
    [i \in 1..Len(s) |->
        [t |-> s[i].t,
         v |-> IF i = 1 THEN NaN ELSE Sub(Div(s[i].v, s[i - 1].v), One)]]

\* pd.to_datetime(ts, unit='s'): the calendar instant ts seconds after the
\* epoch, as a day number and the second within the day.
ToDatetime(ts) == [day |-> ts \div SecondsPerDay, sec |-> ts % SecondsPerDay]

\* Not-a-time: what pd.to_datetime('') gives.
NaT == [day |-> 0 - 1, sec |-> 0 - 1]

\* Seconds from instant a to instant b.
SecondsBetween(a, b) == (b.day - a.day) * SecondsPerDay + (b.sec - a.sec)

\* a <= b on instants; false when either is NaT.
TimeLe(a, b) == a # NaT /\ b # NaT /\ SecondsBetween(a, b) >= 0

\* DaysBetween rounding a started day up.
DaysBetweenCeil(a, b) ==
    (SecondsBetween(a, b) + SecondsPerDay - 1) \div SecondsPerDay

\* Timedelta.days of the span from instant a to instant b (floored).
DaysBetween(a, b) == SecondsBetween(a, b) \div SecondsPerDay

\* ------------------------------------------------------------- state
VARIABLES
    dir,                 \* the backtest directory: its results JSON, if any
    benchmark,           \* benchmark_data_path and the rows of the file there
    _backtest_data,      \* the generator's caches; None or a value
    _equity_curve,
    _returns,
    _benchmark_returns,
    result,              \* the last call: its name, arguments and outcome
    cli                  \* a run of the command line: its arguments and progress

vars == <<dir, benchmark, _backtest_data, _equity_curve, _returns,
          _benchmark_returns, result, cli>>

None == [set |-> FALSE]
Some(v) == [set |-> TRUE, val |-> v]

\* The four cache fields of a generator, as one record.
Self == [bd |-> _backtest_data, ec |-> _equity_curve, rt |-> _returns,
         br |-> _benchmark_returns]

\* A call's outcome: the generator afterwards, the exception raised
\* ("none" when it returned) and the value returned.
Returned(self, v) == [self |-> self, err |-> "none", val |-> v]
Raised(self, e) == [self |-> self, err |-> e, val |-> None]

\* ------------------------------------------------------------- loader
\* load_backtest that remembers a failed scan: an empty directory is
\* cached as an empty document.
load_backtest_once(self, d) ==
    IF self.bd.set THEN Returned(self, self.bd.val)
    ELSE IF ~d.present
         THEN Raised([self EXCEPT !.bd = Some([values |-> <<>>,
                                               algorithmConfiguration |-> <<>>])],
                     "FileNotFoundError")
    ELSE Returned([self EXCEPT !.bd = Some(d.json)], d.json)

\* load_backtest: the cached document, else the content of the results
\* JSON the directory holds, cached on the way out.
load_backtest(self, d) ==
    IF self.bd.set THEN Returned(self, self.bd.val)
    ELSE IF ~d.present THEN Raised(self, "FileNotFoundError")
    ELSE Returned([self EXCEPT !.bd = Some(d.json)], d.json)

\* The DataFrame of the samples reduced to the Series built from it:
\* index to_datetime(timestamp), values close.
EquityOf(values) ==
    [i \in 1..Len(values) |->
        [t |-> ToDatetime(values[i].timestamp), v |-> Q(values[i].close)]]

\* extract_equity_curve that reads the results file itself and keeps no
\* document.
extract_equity_curve_direct(self, d) ==
    IF self.ec.set THEN Returned(self, self.ec.val)
    ELSE IF ~d.present THEN Raised(self, "FileNotFoundError")
    ELSE LET equity == EquityOf(d.json.values)
         IN  Returned([self EXCEPT !.ec = Some(equity)], equity)

extract_equity_curve(self, d) ==
    IF self.ec.set THEN Returned(self, self.ec.val)
    ELSE LET l == load_backtest(self, d)
         IN  IF l.err # "none" THEN Raised(l.self, l.err)
             ELSE LET equity == EquityOf(l.val.values)
                  IN  Returned([l.self EXCEPT !.ec = Some(equity)], equity)

get_returns(self, d) ==
    IF self.rt.set THEN Returned(self, self.rt.val)
    ELSE LET e == extract_equity_curve(self, d)
         IN  IF e.err # "none" THEN Raised(e.self, e.err)
             ELSE LET returns == DropNa(PctChange(e.val))
                  IN  Returned([e.self EXCEPT !.rt = Some(returns)], returns)

get_config(self, d) ==
    LET l == load_backtest(self, d)
    IN  IF l.err # "none" THEN Raised(l.self, l.err)
        ELSE Returned(l.self, l.val.algorithmConfiguration)

\* ---------------------------------------------------------- benchmark
\* The date a configuration string stands for; '' parses to NaT.
NoDate == 0 - 1
ParseDate(x) == IF x = NoDate THEN NaT ELSE ToDatetime(x)

\* load_benchmark: None without a readable file, else the close prices of
\* the rows whose datetime lies in [start, end].
load_benchmark(b, start_date, end_date) ==
    IF b.path # "file" THEN None
    ELSE LET start == ParseDate(start_date)
             end == ParseDate(end_date)
             df == [i \in 1..Len(b.rows) |->
                      [t |-> ToDatetime(b.rows[i].datetime),
                       v |-> Q(b.rows[i].close)]]
         IN  Some(SelectIdx(df, {i \in 1..Len(df) :
                                    TimeLe(start, df[i].t) /\ TimeLe(df[i].t, end)}))

SetMax(S) == CHOOSE x \in S : \A y \in S : y <= x

\* ReindexFfill without the fill: Series.reindex(index).
ReindexExact(s, index) ==
    [i \in 1..Len(index) |->
        LET same == {j \in 1..Len(s) : s[j].t = index[i]}
        IN  [t |-> index[i],
             v |-> IF same = {} THEN NaN ELSE s[SetMax(same)].v]]

\* Series.reindex(index, method='ffill'): at each instant of index the
\* value at the last instant of s that is not after it, NaN without one.
ReindexFfill(s, index) ==
    [i \in 1..Len(index) |->
        LET before == {j \in 1..Len(s) : TimeLe(s[j].t, index[i])}
        IN  [t |-> index[i],
             v |-> IF before = {} THEN NaN ELSE s[SetMax(before)].v]]

\* get_benchmark_returns that reads the benchmark file on every call.
get_benchmark_returns_fresh(self, d, b) ==
    LET l == load_backtest(self, d)
    IN  IF l.err # "none" THEN Raised(l.self, l.err)
        ELSE LET config == l.val.algorithmConfiguration
                 benchmark_prices ==
                     load_benchmark(b, config.startDate, config.endDate)
             IN  IF ~benchmark_prices.set THEN Returned(l.self, None)
                 ELSE LET benchmark_returns ==
                              DropNa(PctChange(benchmark_prices.val))
                          r == get_returns(l.self, d)
                          aligned ==
                              DropNa(ReindexFfill(benchmark_returns,
                                                  Index(r.val)))
                      IN  Returned([r.self EXCEPT !.br = Some(aligned)],
                                   Some(aligned))

\* get_benchmark_returns: the cached series, else the benchmark returns
\* laid on the strategy's return instants, cached unless there is no
\* benchmark file.
get_benchmark_returns(self, d, b) ==
    IF self.br.set THEN Returned(self, self.br)
    ELSE LET l == load_backtest(self, d)
         IN  IF l.err # "none" THEN Raised(l.self, l.err)
             ELSE LET config == l.val.algorithmConfiguration
                      benchmark_prices ==
                          load_benchmark(b, config.startDate, config.endDate)
                  IN  IF ~benchmark_prices.set THEN Returned(l.self, None)
                      ELSE LET benchmark_returns ==
                                   DropNa(PctChange(benchmark_prices.val))
                               r == get_returns(l.self, d)
                               aligned ==
                                   DropNa(ReindexFfill(benchmark_returns,
                                                       Index(r.val)))
                           IN  Returned([r.self EXCEPT !.br = Some(aligned)],
                                        Some(aligned))

\* ----------------------------------------------------- metrics engine
\* 1 + returns, elementwise.
OnePlus(returns) ==
    [i \in 1..Len(returns) |-> [t |-> returns[i].t, v |-> Add(One, returns[i].v)]]

RECURSIVE ProdTo(_, _)
\* The product of the first n values of s, a NaN entry counted as 1
\* (skipna).
ProdTo(s, n) ==
    IF n = 0 THEN One
    ELSE Mul(ProdTo(s, n - 1), IF IsNaN(s[n].v) THEN One ELSE s[n].v)

\* Prod leaving out the last entry.
ProdButLast(s) == ProdTo(s, IF Len(s) > 1 THEN Len(s) - 1 ELSE Len(s))

\* Series.prod()
Prod(s) == ProdTo(s, Len(s))

\* Series.cumprod(): the running product, NaN where the entry is NaN.
CumProd(s) ==
    [i \in 1..Len(s) |->
        [t |-> s[i].t, v |-> IF IsNaN(s[i].v) THEN NaN ELSE ProdTo(s, i)]]

MinQ(S) == CHOOSE x \in S : \A y \in S : Le(x, y)
MaxQ(S) == CHOOSE x \in S : \A y \in S : Le(y, x)

\* ExpandingMax with the starting capital 1 as an observation before the
\* first.
ExpandingMaxFromStart(s) ==
    [i \in 1..Len(s) |->
        LET obs == {One} \cup {s[j].v : j \in {k \in 1..i : IsFinite(s[k].v)}}
        IN  [t |-> s[i].t, v |-> MaxQ(obs)]]

\* Series.expanding().max(): the largest of the observations so far; the
\* window code reads inf as NaN, and NaN is no observation.
ExpandingMax(s) ==
    [i \in 1..Len(s) |->
        LET obs == {s[j].v : j \in {k \in 1..i : IsFinite(s[k].v)}}
        IN  [t |-> s[i].t, v |-> IF obs = {} THEN NaN ELSE MaxQ(obs)]]

\* (cum_returns - running_max) / running_max
DrawdownOf(cum_returns, running_max) ==
    [i \in 1..Len(cum_returns) |->
        [t |-> cum_returns[i].t,
         v |-> Div(Sub(cum_returns[i].v, running_max[i].v), running_max[i].v)]]

\* SeriesMin taking the greatest entry instead: Series.max().
SeriesMax(s) ==
    LET obs == {s[i].v : i \in {k \in 1..Len(s) : ~IsNaN(s[k].v)}}
    IN  IF obs = {} THEN NaN ELSE MaxQ(obs)

\* Series.min(): the least entry that is not NaN, NaN without one.
SeriesMin(s) ==
    LET obs == {s[i].v : i \in {k \in 1..Len(s) : ~IsNaN(s[k].v)}}
    IN  IF obs = {} THEN NaN ELSE MinQ(obs)

RECURSIVE SumTo(_, _)
SumTo(xs, n) == IF n = 0 THEN Zero ELSE Add(SumTo(xs, n - 1), xs[n])

RECURSIVE SumSqDevTo(_, _, _)
SumSqDevTo(xs, mean, n) ==
    IF n = 0 THEN Zero
    ELSE Add(SumSqDevTo(xs, mean, n - 1),
             Mul(Sub(xs[n], mean), Sub(xs[n], mean)))

\* The mean of a sequence of floats.
MeanOf(xs) == Div(SumTo(xs, Len(xs)), Q(Len(xs)))

\* The sample variance (ddof = 1) of a sequence of floats: NaN with fewer
\* than two of them.
VarOf(xs) ==
    IF Len(xs) < 2 THEN NaN
    ELSE Div(SumSqDevTo(xs, MeanOf(xs), Len(xs)), Q(Len(xs) - 1))

\* A value sgn * sqrt(sq), kept exact; NaN when sq is NaN.
RootVal(sgn, sq) == [sgn |-> IF IsNaN(sq) THEN 0 ELSE sgn, sq |-> sq]

\* sqrt(x) of a float x >= 0 or NaN.
Sqrt(x) == RootVal(IF Gt(x, Zero) THEN 1 ELSE 0, x)

\* A rational as a RootVal.
RootOfQ(x) == RootVal(Sgn(x[1]), Mul(x, x))

\* r * sqrt(k), k a positive integer.
RootTimesSqrt(r, k) == RootVal(r.sgn, Mul(r.sq, Q(k)))

RootGtZero(r) == r.sgn = 1
RootIsNaN(r) == IsNaN(r.sq)

\* Series.std() * np.sqrt(periods_per_year); std skips NaN entries.
AnnualisedStd(s) ==
    RootTimesSqrt(Sqrt(VarOf(Values(DropNa(s)))), PeriodsPerYear)

\* (1 + total_return) ** (365.25 / days) - 1, kept as its base and days.
AnnualReturn(total_return, days) ==
    [base |-> Add(One, total_return), days |-> days]

\* Whether the annual return a is a finite number: numpy raises a negative
\* base to the power 365.25 / days (never a whole number) to NaN, and an
\* infinite or NaN base stays so.
AnnualIsFinite(a) == IsFinite(a.base) /\ Le(Zero, a.base)

\* The sign of a finite annual return: that of base - 1.
AnnualSign(a) == Sgn(Sub(a.base, One)[1])

\* The literal 0 of an else branch, and the quotient a / b of an annual
\* return and a RootVal.
LitZero == [kind |-> "zero"]
Quot(a, b) == [kind |-> "quot", num |-> a, den |-> b]

\* CountGt with >= for >.
CountGe(returns) == Cardinality({i \in 1..Len(returns) : Le(Zero, returns[i].v)})

\* (returns > 0).sum()
CountGt(returns) == Cardinality({i \in 1..Len(returns) : Gt(returns[i].v, Zero)})
\* CountLt with <= for <.
CountLe(returns) == Cardinality({i \in 1..Len(returns) : Le(returns[i].v, Zero)})

\* (returns < 0).sum()
CountLt(returns) == Cardinality({i \in 1..Len(returns) : Lt(returns[i].v, Zero)})

\* Downside with <= for <.
DownsideOrFlat(returns) ==
    SelectIdx(returns, {i \in 1..Len(returns) : Le(returns[i].v, Zero)})

\* returns[returns < 0]
Downside(returns) ==
    SelectIdx(returns, {i \in 1..Len(returns) : Lt(returns[i].v, Zero)})

MetricKeys ==
    {"Total Return", "Annual Return", "Volatility", "Sharpe Ratio",
     "Sortino Ratio", "Calmar Ratio", "Max Drawdown", "Win Rate",
     "Total Trades", "Winning Trades", "Losing Trades"}

calculate_metrics(returns) ==
    LET total_return == Sub(Prod(OnePlus(returns)), One)
    IN  IF Len(returns) = 0 THEN [err |-> "IndexError", val |-> None]
        ELSE
        LET days == DaysBetween(returns[1].t, returns[Len(returns)].t)
        IN  IF days = 0 THEN [err |-> "ZeroDivisionError", val |-> None]
            ELSE
            LET ann_return == AnnualReturn(total_return, days)
                volatility == AnnualisedStd(returns)
                sharpe == IF RootGtZero(volatility)
                          THEN Quot(ann_return, volatility) ELSE LitZero
                cum_returns == CumProd(OnePlus(returns))
                running_max == ExpandingMax(cum_returns)
                drawdown == DrawdownOf(cum_returns, running_max)
                max_dd == SeriesMin(drawdown)
                wins == CountGt(returns)
                losses == CountLt(returns)
                win_rate == IF wins + losses > 0
                            THEN Norm(wins, wins + losses) ELSE Zero
                downside_std == AnnualisedStd(Downside(returns))
                sortino == IF RootGtZero(downside_std)
                           THEN Quot(ann_return, downside_std) ELSE LitZero
                calmar == IF Lt(max_dd, Zero)
                          THEN Quot(ann_return, RootOfQ(AbsQ(max_dd)))
                          ELSE LitZero
            IN  [err |-> "none",
                 val |-> Some(("Total Return" :> total_return)
                           @@ ("Annual Return" :> ann_return)
                           @@ ("Volatility" :> volatility)
                           @@ ("Sharpe Ratio" :> sharpe)
                           @@ ("Sortino Ratio" :> sortino)
                           @@ ("Calmar Ratio" :> calmar)
                           @@ ("Max Drawdown" :> max_dd)
                           @@ ("Win Rate" :> win_rate)
                           @@ ("Total Trades" :> wins + losses)
                           @@ ("Winning Trades" :> wins)
                           @@ ("Losing Trades" :> losses))]

get_drawdown_series(returns) ==
    LET cum_returns == CumProd(OnePlus(returns))
        running_max == ExpandingMax(cum_returns)
    IN  DrawdownOf(cum_returns, running_max)

\* The window ending at position i of Series.rolling(window): NaN unless
\* it holds window observations (inf is read as NaN, NaN is none).
RollingWindow(returns, window, i) ==
    IF i < window THEN <<>>
    ELSE [k \in 1..window |-> returns[i - window + k].v]

RollingFull(w, window) ==
    Len(w) = window /\ window >= 1 /\ \A k \in 1..Len(w) : IsFinite(w[k])

\* RollingEntry without the annualisation: rolling_mean / rolling_std.
RollingEntryUnscaled(w, window) ==
    LET rolling_mean == IF RollingFull(w, window) THEN MeanOf(w) ELSE NaN
        rolling_var == IF RollingFull(w, window) THEN VarOf(w) ELSE NaN
    IN  IF IsNaN(rolling_mean) \/ IsNaN(rolling_var) THEN RootVal(0, NaN)
        ELSE RootVal(Sgn(rolling_mean[1]),
                     Div(Mul(rolling_mean, rolling_mean), rolling_var))

\* One entry of (rolling_mean / rolling_std) * np.sqrt(periods_per_year).
RollingEntry(w, window) ==
    LET rolling_mean == IF RollingFull(w, window) THEN MeanOf(w) ELSE NaN
        rolling_var == IF RollingFull(w, window) THEN VarOf(w) ELSE NaN
    IN  IF IsNaN(rolling_mean) \/ IsNaN(rolling_var) THEN RootVal(0, NaN)
        ELSE RootVal(Sgn(rolling_mean[1]),
                     Mul(Div(Mul(rolling_mean, rolling_mean), rolling_var),
                         Q(PeriodsPerYear)))

get_rolling_sharpe(returns, window) ==
    [i \in 1..Len(returns) |->
        [t |-> returns[i].t,
         v |-> RollingEntry(RollingWindow(returns, window, i), window)]]

\* ------------------------------------------------------------- inputs
\* The close values a sample may carry; the code accepts any number.
Closes == {0 - 1, 0, 1, 2}

\* Samples are taken every tick or every second tick.
Steps == {1, 2}

\* The samples of a results file: timestamps t0, t0 + step, ... in ticks,
\* closes as given.
SamplesOf(t0, step, closes) ==
    [i \in 1..Len(closes) |->
        [timestamp |-> (t0 + (i - 1) * step) * TickSeconds, close |-> closes[i]]]

CloseSeqs(S) == UNION {[1..n -> S] : n \in 0..MaxLen}

\* An equity that loses one unit per sample: n + 1, n, ..., 2.
DecayCloses(n) == [i \in 1..n |-> n + 2 - i]

Json(values, startDate, endDate) ==
    [values |-> values,
     algorithmConfiguration |-> [startDate |-> startDate, endDate |-> endDate]]

NoFile == [present |-> FALSE]
File(json) == [present |-> TRUE, json |-> json]

\* A benchmark price that tells the rows apart: (k + 1)! at tick k.
RECURSIVE BenchClose(_)
BenchClose(k) == IF k = 0 THEN 1 ELSE (k + 1) * BenchClose(k - 1)

RECURSIVE RowsOf(_, _)
\* The rows of a benchmark file with a row at each tick of ticks, up to n.
RowsOf(ticks, n) ==
    IF n < 0 THEN <<>>
    ELSE LET front == RowsOf(ticks, n - 1)
         IN  IF n \in ticks
             THEN Append(front, [datetime |-> n * TickSeconds,
                                 close |-> BenchClose(n)])
             ELSE front

NoBenchmark == [path |-> "none", rows |-> <<>>]

NoResult == [op |-> "init", err |-> "none", val |-> None, arg |-> <<>>,
             window |-> 0]

\* The generator is driven by a library caller: no command line runs.
NoCli == [pc |-> "none"]

\* A generator just constructed over a directory, without a benchmark:
\* any results file, or none.
Init ==
    /\ dir \in {NoFile} \cup
               {File(Json(SamplesOf(0, step, closes), 0, MaxTick * TickSeconds)) :
                    step \in Steps,
                    closes \in CloseSeqs(Closes) \cup {DecayCloses(MaxLen)}}
    /\ benchmark = NoBenchmark
    /\ _backtest_data = None
    /\ _equity_curve = None
    /\ _returns = None
    /\ _benchmark_returns = None
    /\ result = NoResult
    /\ cli = NoCli

\* The equity of the benchmark runs: 1, 2, 3, ...
RampCloses(n) == [i \in 1..n |-> i]

\* A generator just constructed with a benchmark path: a results file
\* with a rising equity, a benchmark file with rows at some ticks (or a
\* path to nothing), and a configured date range.
InitBench ==
    /\ dir \in {File(Json(SamplesOf(0, step, RampCloses(n)), startDate, endDate)) :
                    step \in Steps, n \in 0..MaxLen,
                    startDate \in {NoDate, 0, TickSeconds},
                    endDate \in {(MaxTick - 1) * TickSeconds,
                                 (MaxTick + MaxLen) * 2 * TickSeconds}}
    /\ benchmark \in {[path |-> "missing", rows |-> <<>>]} \cup
                     {[path |-> "file", rows |-> RowsOf(ticks, MaxTick)] :
                          ticks \in SUBSET (0..MaxTick)}
    /\ _backtest_data = None
    /\ _equity_curve = None
    /\ _returns = None
    /\ _benchmark_returns = None
    /\ result = NoResult
    /\ cli = NoCli

\* ------------------------------------------------------------ actions
\* The generator after a call that left it as self.
Becomes(self) ==
    /\ _backtest_data' = self.bd
    /\ _equity_curve' = self.ec
    /\ _returns' = self.rt
    /\ _benchmark_returns' = self.br

\* A call of a method that takes no argument, with outcome r.
Call(op, r) ==
    /\ Becomes(r.self)
    /\ result' = [op |-> op, err |-> r.err, val |-> r.val, arg |-> <<>>,
                  window |-> 0]
    /\ UNCHANGED <<dir, benchmark, cli>>

LoadBacktest == Call("load_backtest", load_backtest(Self, dir))

ExtractEquityCurve == Call("extract_equity_curve", extract_equity_curve(Self, dir))

GetReturns == Call("get_returns", get_returns(Self, dir))

GetConfig == Call("get_config", get_config(Self, dir))

GetBenchmarkReturns ==
    Call("get_benchmark_returns", get_benchmark_returns(Self, dir, benchmark))

\* The return series a caller holds: the strategy's or the benchmark's,
\* as the generator handed them out.
Held == {c.val : c \in {c \in {_returns, _benchmark_returns} : c.set}}

\* Pure that keeps its argument as the strategy's returns.
Keeping(op, returns, window, err, val) ==
    /\ result' = [op |-> op, err |-> err, val |-> val, arg |-> returns,
                  window |-> window]
    /\ _returns' = Some(returns)
    /\ UNCHANGED <<dir, benchmark, _backtest_data, _equity_curve,
                   _benchmark_returns, cli>>

\* A call of a method of the metrics engine on a held series.
Pure(op, returns, window, err, val) ==
    /\ result' = [op |-> op, err |-> err, val |-> val, arg |-> returns,
                  window |-> window]
    /\ UNCHANGED <<dir, benchmark, _backtest_data, _equity_curve, _returns,
                   _benchmark_returns, cli>>

CalculateMetrics ==
    \E returns \in Held :
        LET r == calculate_metrics(returns)
        IN  Pure("calculate_metrics", returns, 0, r.err, r.val)

GetDrawdownSeries ==
    \E returns \in Held :
        Pure("get_drawdown_series", returns, 0, "none",
             get_drawdown_series(returns))

GetRollingSharpe ==
    \E returns \in Held, window \in 1..MaxWindow :
        Pure("get_rolling_sharpe", returns, window, "none",
             get_rolling_sharpe(returns, window))

Next ==
    \/ LoadBacktest
    \/ ExtractEquityCurve
    \/ GetReturns
    \/ GetConfig
    \/ GetBenchmarkReturns
    \/ CalculateMetrics
    \/ GetDrawdownSeries
    \/ GetRollingSharpe

Spec == Init /\ [][Next]_vars

SpecBench == InitBench /\ [][Next]_vars

\* -------------------------------------------------------- environment
\* The results files another process may write into the directory: a
\* rising and a falling equity, sampled a day apart.
EnvFiles ==
    {File(Json(SamplesOf(0, 2, closes), 0, MaxTick * TickSeconds)) :
         closes \in {RampCloses(MaxLen), DecayCloses(MaxLen)}}

\* The benchmark files that may be written at the benchmark path: a row
\* at every tick, or at every tick from the third on.
EnvBenchmarks ==
    {[path |-> "file", rows |-> RowsOf(ticks, MaxTick)] :
         ticks \in {0..MaxTick, 2..MaxTick}}

\* A generator just constructed over a directory without a results file,
\* with a benchmark path to nothing.
InitEnv ==
    /\ dir = NoFile
    /\ benchmark = [path |-> "missing", rows |-> <<>>]
    /\ _backtest_data = None
    /\ _equity_curve = None
    /\ _returns = None
    /\ _benchmark_returns = None
    /\ result = NoResult
    /\ cli = NoCli

\* A results file is written into the directory, or replaced by another.
WriteResults ==
    /\ \E f \in EnvFiles : f # dir /\ dir' = f
    /\ UNCHANGED <<benchmark, _backtest_data, _equity_curve, _returns,
                   _benchmark_returns, result, cli>>

\* A benchmark file is written at the benchmark path, or replaced.
WriteBenchmark ==
    /\ \E b \in EnvBenchmarks : b # benchmark /\ benchmark' = b
    /\ UNCHANGED <<dir, _backtest_data, _equity_curve, _returns,
                   _benchmark_returns, result, cli>>

NextEnv ==
    \/ Next
    \/ WriteResults
    \/ WriteBenchmark

SpecEnv == InitEnv /\ [][NextEnv]_vars

\* ------------------------------------------------------- command line
\* str.endswith, on a string as the sequence of its characters.
EndsWith(s, suffix) ==
    /\ Len(s) >= Len(suffix)
    /\ SubSeq(s, Len(s) - Len(suffix) + 1, Len(s)) = suffix

Html == <<".", "h", "t", "m", "l">>
Pdf == <<".", "p", "d", "f">>

\* detect_format that trusts --format.
keep_format(format, output) == format

\* The format main renders after looking at the output filename.
detect_format(format, output) ==
    IF format = "html" /\ EndsWith(output, Pdf) THEN "pdf"
    ELSE IF format = "pdf" /\ EndsWith(output, Html) THEN "html"
    ELSE format

\* ErrorMessage without the prefix.
BareMessage(text) == <<text>>

\* f"Error: {text}", as the prefix and the text.
ErrorMessage(text) == <<"Error:", text>>

RendererOf(format) == IF format = "html" THEN "HTMLTearsheet" ELSE "PDFTearsheet"

\* generate left by exception e with the generator as g, nothing written.
Left(g, e) == [self |-> g, err |-> e, written |-> FALSE]

\* The figure is built and written: io is the exception that raises,
\* "none" for none.
write_figure(g, io) ==
    IF io # "none" THEN Left(g, io)
    ELSE [self |-> g, err |-> "none", written |-> TRUE]

\* generate from config = self.generator.get_config() on.
with_config(config, io) ==
    IF config.err # "none" THEN Left(config.self, config.err)
    ELSE write_figure(config.self, io)

\* generate once strat_metrics and bench_metrics are computed.
with_metrics(strat_metrics, bench_metrics, g, d, io) ==
    IF strat_metrics.err # "none" THEN Left(g, strat_metrics.err)
    ELSE IF bench_metrics.err # "none" THEN Left(g, bench_metrics.err)
    ELSE with_config(get_config(g, d), io)

\* generate once benchmark_returns = self.generator.get_benchmark_returns()
\* is made.
with_benchmark(returns, benchmark_returns, d, io) ==
    IF benchmark_returns.err # "none"
    THEN Left(benchmark_returns.self, benchmark_returns.err)
    ELSE with_metrics(calculate_metrics(returns.val),
                      IF benchmark_returns.val.set
                      THEN calculate_metrics(benchmark_returns.val.val)
                      ELSE [err |-> "none", val |-> None],
                      benchmark_returns.self, d, io)

\* generate once equity = self.generator.extract_equity_curve() is made.
with_equity(returns, equity, d, b, io) ==
    IF equity.err # "none" THEN Left(equity.self, equity.err)
    ELSE with_benchmark(returns, get_benchmark_returns(equity.self, d, b), d, io)

\* generate once returns = self.generator.get_returns() is made.
with_returns(returns, d, b, io) ==
    IF returns.err # "none" THEN Left(returns.self, returns.err)
    ELSE with_equity(returns, extract_equity_curve(returns.self, d), d, b, io)

\* generate of either renderer on a generator self: the generator calls it
\* makes, in order, then the figure. Yields the generator afterwards, the
\* exception that left it and whether the output file was written.
generate(self, d, b, io) == with_returns(get_returns(self, d), d, b, io)

\* The output filenames tried: t.html, t.pdf, t.PDF, pdf, t.pdf.html.
Outputs ==
    {<<"t">> \o Html, <<"t">> \o Pdf, <<"t", ".", "P", "D", "F">>,
     <<"p", "d", "f">>, <<"t">> \o Pdf \o Html}

\* What a backtest directory may hold: nothing, a results file of the
\* environment, or one with two samples only.
CliDirs ==
    {NoFile} \cup EnvFiles \cup
    {File(Json(SamplesOf(0, 2, RampCloses(2)), 0, MaxTick * TickSeconds))}

\* main after parse_args: the backtest path is absent, a file or a
\* directory; --benchmark is not given, names nothing or names a file;
\* given keeps the --format of the command line, format is args.format.
InitCli ==
    /\ cli \in {[pc |-> "exists", path |-> path, given |-> format,
                 format |-> format, output |-> output, stderr |-> <<>>,
                 status |-> None,
                 constructed |-> FALSE, rendered |-> <<>>, written |-> FALSE] :
                    path \in {"absent", "file", "dir"},
                    format \in {"html", "pdf"},
                    output \in Outputs}
    /\ dir \in IF cli.path = "dir" THEN CliDirs ELSE {NoFile}
    /\ benchmark \in {NoBenchmark, [path |-> "missing", rows |-> <<>>],
                      [path |-> "file", rows |-> RowsOf(0..MaxTick, MaxTick)]}
    /\ _backtest_data = None
    /\ _equity_curve = None
    /\ _returns = None
    /\ _benchmark_returns = None
    /\ result = NoResult

\* print(f"Error: ...", file=sys.stderr); sys.exit(1)
Exit(text) ==
    [cli EXCEPT !.pc = "exited",
                !.stderr = Append(@, ErrorMessage(text)),
                !.status = Some(1)]

\* A step of main that leaves the generator and the files alone.
Step(next) ==
    /\ cli' = next
    /\ UNCHANGED <<dir, benchmark, _backtest_data, _equity_curve, _returns,
                   _benchmark_returns, result>>

CheckExists ==
    /\ cli.pc = "exists"
    /\ Step(IF cli.path = "absent" THEN Exit("Backtest directory not found")
            ELSE [cli EXCEPT !.pc = "is_dir"])

CheckIsDir ==
    /\ cli.pc = "is_dir"
    /\ Step(IF cli.path # "dir" THEN Exit("Not a directory")
            ELSE [cli EXCEPT !.pc = "benchmark"])

CheckBenchmark ==
    /\ cli.pc = "benchmark"
    /\ Step(IF benchmark.path = "missing" THEN Exit("Benchmark file not found")
            ELSE [cli EXCEPT !.pc = "format"])

DetectFormat ==
    /\ cli.pc = "format"
    /\ Step([cli EXCEPT !.pc = "construct",
                        !.format = detect_format(cli.format, cli.output)])

\* TearsheetGenerator(args.backtest_dir, args.benchmark)
Construct ==
    /\ cli.pc = "construct"
    /\ cli' = [cli EXCEPT !.pc = "generate", !.constructed = TRUE]
    /\ Becomes([bd |-> None, ec |-> None, rt |-> None, br |-> None])
    /\ UNCHANGED <<dir, benchmark, result>>

\* The renderer of the format is built and its generate called; an
\* exception is reported and exits, else main returns.
Generate ==
    /\ cli.pc = "generate"
    /\ \E io \in {"none", "OSError"} :
           LET g == generate(Self, dir, benchmark, io)
               called == [cli EXCEPT !.rendered = Append(@, RendererOf(cli.format)),
                                     !.written = g.written]
           IN  /\ Becomes(g.self)
               /\ cli' = IF g.err = "none"
                         THEN [called EXCEPT !.pc = "returned"]
                         ELSE [called EXCEPT !.pc = "exited",
                                             !.stderr = Append(@, ErrorMessage(g.err)),
                                             !.status = Some(1)]
    /\ UNCHANGED <<dir, benchmark, result>>

NextCli ==
    \/ CheckExists
    \/ CheckIsDir
    \/ CheckBenchmark
    \/ DetectFormat
    \/ Construct
    \/ Generate

SpecCli == InitCli /\ [][NextCli]_vars

\* ------------------------------------------------------------- claims
AllPositive(s) == \A i \in 1..Len(s) : s[i].v[1] > 0 /\ s[i].v[2] > 0

StrictlyIncreasing(s) ==
    \A i \in 1..(Len(s) - 1) : SecondsBetween(s[i].t, s[i + 1].t) > 0

\* The call just made is op and it returned.
Did(op) == result.op = op /\ result.err = "none"

\* C1: get_returns on a value series of N positive points at strictly
\* increasing instants raises nothing and returns N-1 entries when N >= 2
\* (none when N < 2); the entry for the i-th point (i = 2..N) sits at that
\* point's instant and satisfies (1 + r) * v[i-1] = v[i]; the first instant
\* is dropped.
C1_ReturnsArePctChange ==
    (result.op = "get_returns" /\ dir.present) =>
        /\ _equity_curve.set
        /\ LET v == _equity_curve.val
               r == result.val
           IN  (AllPositive(v) /\ StrictlyIncreasing(v)) =>
                   /\ result.err = "none"
                   /\ Len(r) = IF Len(v) >= 2 THEN Len(v) - 1 ELSE 0
                   /\ \A i \in 1..Len(r) :
                          /\ r[i].t = v[i + 1].t
                          /\ Mul(Add(One, r[i].v), v[i].v) = v[i + 1].v

\* A series of three or more positive points with a gain and a loss.
C1_Witness ==
    /\ Did("get_returns")
    /\ Len(_equity_curve.val) >= 3
    /\ AllPositive(_equity_curve.val)
    /\ \E i, j \in 1..Len(result.val) :
           Gt(result.val[i].v, Zero) /\ Lt(result.val[j].v, Zero)

\* C2 (as claimed): extract_equity_curve raises, returns no series and
\* caches none when the samples are empty or some close is <= 0.
C2_ExtractRejectsBadSamples ==
    (result.op = "extract_equity_curve" /\ dir.present) =>
        LET values == dir.json.values
            bad == Len(values) = 0 \/ \E i \in 1..Len(values) : values[i].close <= 0
        IN  /\ bad => (result.err # "none" /\ ~_equity_curve.set)
            /\ result.err = "none" => ~bad

\* The report of the call just made.
Report == result.val.val

\* The strategy's value series has exactly two points, both positive.
TwoPoints ==
    /\ _equity_curve.set
    /\ Len(_equity_curve.val) = 2
    /\ AllPositive(_equity_curve.val)

\* b / a - 1 for the first value a and the last value b of the equity.
FirstToLast ==
    Sub(Div(_equity_curve.val[Len(_equity_curve.val)].v, _equity_curve.val[1].v),
        One)

\* C3 (as claimed): on a two-point value series [a, b], calculate_metrics
\* on the one return yields a report whose Total Return is b/a - 1.
C3_TwoPointRoundTrip ==
    (result.op = "calculate_metrics" /\ TwoPoints /\ result.arg = _returns.val) =>
        /\ result.err = "none"
        /\ Report["Total Return"] = FirstToLast

\* C3 (amended): on a two-point value series [a, b] with a, b > 0
\* get_returns yields exactly one return, b/a - 1, and calculate_metrics on
\* it raises ZeroDivisionError (elapsed_days = 0) and yields no report;
\* every report calculate_metrics does return for the returns of a positive
\* value series has Total Return = last / first - 1.
C3_RoundTripAmended ==
    /\ (Did("get_returns") /\ TwoPoints) =>
           /\ Len(result.val) = 1
           /\ result.val[1].v = FirstToLast
    /\ (result.op = "calculate_metrics" /\ TwoPoints /\ result.arg = _returns.val) =>
           /\ result.err = "ZeroDivisionError"
           /\ ~result.val.set
    /\ (Did("calculate_metrics") /\ result.arg = _returns.val
            /\ AllPositive(_equity_curve.val)) =>
           Report["Total Return"] = FirstToLast

\* calculate_metrics on the single return of the value series [1, 2].
C3_Witness ==
    /\ result.op = "calculate_metrics"
    /\ TwoPoints
    /\ result.arg = _returns.val
    /\ Len(result.arg) = 1
    /\ result.arg[1].v = One
    /\ result.err = "ZeroDivisionError"

\* The seconds from the first to the last instant of the argument.
ArgSpan == SecondsBetween(result.arg[1].t, result.arg[Len(result.arg)].t)

\* C4: calculate_metrics takes elapsed_days as the whole days in the span
\* from the first to the last return instant; with elapsed_days = 0 it
\* raises and yields no report; with elapsed_days >= 1 it returns a report
\* of exactly the eleven fields, annualised over elapsed_days.
C4_ZeroDaysFails ==
    (result.op = "calculate_metrics" /\ Len(result.arg) >= 1) =>
        /\ (ArgSpan >= 0 /\ ArgSpan < SecondsPerDay) =>
               (result.err # "none" /\ ~result.val.set)
        /\ ArgSpan >= SecondsPerDay =>
               /\ result.err = "none"
               /\ DOMAIN Report = MetricKeys
               /\ Cardinality(DOMAIN Report) = 11
               /\ LET days == Report["Annual Return"].days
                  IN  /\ days >= 1
                      /\ days * SecondsPerDay <= ArgSpan
                      /\ ArgSpan < (days + 1) * SecondsPerDay

\* Two returns half a day apart: a span that is not zero, zero days.
C4_Witness ==
    /\ result.op = "calculate_metrics"
    /\ Len(result.arg) >= 2
    /\ ArgSpan > 0
    /\ ArgSpan < SecondsPerDay
    /\ result.err = "ZeroDivisionError"

AllZero(s) == Len(s) >= 1 /\ \A i \in 1..Len(s) : s[i].v = Zero

\* A Sharpe, Sortino or Calmar value that is 0: the literal 0, or a zero
\* annual return over a positive denominator.
RatioIsZero(x) ==
    \/ x = LitZero
    \/ /\ x.kind = "quot"
       /\ x.num.base = One
       /\ RootGtZero(x.den)
       /\ IsFinite(x.den.sq)

\* The six values the all-zero case fixes are all 0.
ZeroReport(m) ==
    /\ m["Total Return"] = Zero
    /\ RatioIsZero(m["Sharpe Ratio"])
    /\ RatioIsZero(m["Sortino Ratio"])
    /\ m["Win Rate"] = Zero
    /\ m["Max Drawdown"] = Zero
    /\ RatioIsZero(m["Calmar Ratio"])

\* C5 (as claimed): calculate_metrics on any non-empty all-zero return
\* series yields a report with Total Return, Sharpe, Sortino, Win Rate,
\* Max Drawdown and Calmar all 0.
C5_AllZeroReport ==
    (result.op = "calculate_metrics" /\ AllZero(result.arg)) =>
        (result.err = "none" /\ ZeroReport(Report))

\* C5 (amended): calculate_metrics on a non-empty all-zero return series
\* whose first and last instants are at least one whole day apart yields a
\* report with those six values 0; with less than a day between them it
\* raises ZeroDivisionError and yields no report.
C5_AllZeroAmended ==
    (result.op = "calculate_metrics" /\ AllZero(result.arg)) =>
        IF ArgSpan >= SecondsPerDay
        THEN result.err = "none" /\ ZeroReport(Report)
        ELSE result.err = "ZeroDivisionError" /\ ~result.val.set

\* A report for two or more zero returns.
C5_Witness ==
    /\ Did("calculate_metrics")
    /\ AllZero(result.arg)
    /\ Len(result.arg) >= 2
    /\ ZeroReport(Report)

\* Every return is a finite number above -1.
FiniteAboveMinusOne(s) ==
    \A i \in 1..Len(s) : IsFinite(s[i].v) /\ Gt(s[i].v, Neg(One))

RECURSIVE CumAt(_, _)
\* The product of (1 + r[k]) for k <= i.
CumAt(s, i) == IF i = 0 THEN One ELSE Mul(CumAt(s, i - 1), Add(One, s[i].v))

\* The cumulative-product curve never falls below an earlier value.
NeverBelowPeak(s) ==
    \A i \in 1..Len(s) : \A j \in 1..i : Le(CumAt(s, j), CumAt(s, i))

\* C6: in every report of calculate_metrics for finite returns all > -1,
\* Max Drawdown is the least entry of get_drawdown_series on the same
\* returns, is <= 0, and is 0 when the cumulative-product curve never
\* falls below its running maximum.
C6_MaxDrawdownIsSeriesMin ==
    (Did("calculate_metrics") /\ FiniteAboveMinusOne(result.arg)) =>
        LET dd == get_drawdown_series(result.arg)
            max_dd == Report["Max Drawdown"]
        IN  /\ \E i \in 1..Len(dd) : dd[i].v = max_dd
            /\ \A i \in 1..Len(dd) : Le(max_dd, dd[i].v)
            /\ Le(max_dd, Zero)
            /\ NeverBelowPeak(result.arg) => max_dd = Zero

\* A report for three or more returns with a drawdown after a gain.
C6_Witness ==
    /\ Did("calculate_metrics")
    /\ FiniteAboveMinusOne(result.arg)
    /\ Len(result.arg) >= 3
    /\ Gt(result.arg[1].v, Zero)
    /\ Lt(Report["Max Drawdown"], Zero)

\* The greatest of CumAt(s, j) for j <= i.
PeakAt(s, i) == MaxQ({CumAt(s, j) : j \in 1..i})

\* C7 (as claimed): get_drawdown_series returns a series of the length and
\* on the instants of its argument, every entry <= 0, entry i being
\* (cum[i] - max(cum[1..i])) / max(cum[1..i]).
C7_DrawdownNonPositive ==
    result.op = "get_drawdown_series" =>
        /\ Len(result.val) = Len(result.arg)
        /\ \A i \in 1..Len(result.arg) :
               /\ result.val[i].t = result.arg[i].t
               /\ Le(result.val[i].v, Zero)
               /\ FiniteAboveMinusOne(result.arg) =>
                      Mul(result.val[i].v, PeakAt(result.arg, i)) =
                          Sub(CumAt(result.arg, i), PeakAt(result.arg, i))

\* The positions of the argument whose return has the sign sg.
Signed(sg) == {i \in 1..Len(result.arg) : Sgn(result.arg[i].v[1]) = sg}

\* C8: in every report of calculate_metrics, Winning Trades counts the
\* returns > 0, Losing Trades the returns < 0, Total Trades is their sum
\* (a zero return is in neither), and Win Rate is Winning / Total when
\* Total > 0 and 0 otherwise, so it lies in [0, 1].
C8_WinLossCounts ==
    Did("calculate_metrics") =>
        LET wins == Report["Winning Trades"]
            losses == Report["Losing Trades"]
            total == Report["Total Trades"]
            win_rate == Report["Win Rate"]
        IN  /\ wins = Cardinality(Signed(1))
            /\ losses = Cardinality(Signed(0 - 1))
            /\ total = wins + losses
            /\ total + Cardinality(Signed(0)) = Len(result.arg)
            /\ IF total > 0 THEN Mul(win_rate, Q(total)) = Q(wins)
               ELSE win_rate = Zero
            /\ Le(Zero, win_rate)
            /\ Le(win_rate, One)

\* A report for a gain, a loss and a zero return.
C8_Witness ==
    /\ Did("calculate_metrics")
    /\ Signed(1) # {}
    /\ Signed(0 - 1) # {}
    /\ \E i \in 1..Len(result.arg) : result.arg[i].v = Zero
    /\ Report["Win Rate"] = <<1, 2>>

RECURSIVE SumRange(_, _, _)
\* The sum of the values of s at the positions lo..hi.
SumRange(s, lo, hi) ==
    IF hi < lo THEN Zero ELSE Add(SumRange(s, lo, hi - 1), s[hi].v)

RECURSIVE SumSqRange(_, _, _)
\* The sum of the squared values of s at the positions lo..hi.
SumSqRange(s, lo, hi) ==
    IF hi < lo THEN Zero
    ELSE Add(SumSqRange(s, lo, hi - 1), Mul(s[hi].v, s[hi].v))

\* n * sum(x^2) - sum(x)^2 over the window of n returns ending at i:
\* n * (n - 1) times the sample variance.
WindowSpread(s, n, i) ==
    Sub(Mul(Q(n), SumSqRange(s, i - n + 1, i)),
        Mul(SumRange(s, i - n + 1, i), SumRange(s, i - n + 1, i)))

\* Entry e is mean / stddev * sqrt(periods_per_year) of the window of n
\* returns ending at i, a finite number.
IsWindowSharpe(e, s, n, i) ==
    LET sum == SumRange(s, i - n + 1, i)
    IN  /\ IsFinite(e.sq)
        /\ e.sgn = Sgn(sum[1])
        /\ Mul(e.sq, Mul(Q(n), WindowSpread(s, n, i))) =
               Mul(Mul(sum, sum), Q(PeriodsPerYear * (n - 1)))

\* The result lies on the instants of its argument, one entry each.
SameInstants ==
    /\ Len(result.val) = Len(result.arg)
    /\ \A i \in 1..Len(result.arg) : result.val[i].t = result.arg[i].t

\* C9 (as claimed), for finite returns > -1: the entries of
\* get_rolling_sharpe(returns, window) before position window are absent,
\* and every later one is defined and is mean / stddev *
\* sqrt(periods_per_year) of its trailing window.
C9_RollingDefinedFromWindow ==
    (result.op = "get_rolling_sharpe" /\ FiniteAboveMinusOne(result.arg)) =>
        /\ SameInstants
        /\ \A i \in 1..Len(result.arg) :
               IF i < result.window THEN RootIsNaN(result.val[i].v)
               ELSE IsWindowSharpe(result.val[i].v, result.arg, result.window, i)

\* C9 (amended): get_rolling_sharpe(returns, window) lies on the instants
\* of returns; its entries before position window are absent; a later
\* entry depends on its trailing window alone: it is mean / stddev *
\* sqrt(periods_per_year) of that window when the window's returns are
\* finite with a sample standard deviation > 0, and it is absent when
\* window = 1 or when the window's returns are all zero.
C9_RollingAmended ==
    result.op = "get_rolling_sharpe" =>
        /\ SameInstants
        /\ \A i \in 1..Len(result.arg) :
               LET n == result.window
                   e == result.val[i].v
                   w == {result.arg[k].v : k \in (i - n + 1)..i}
               IN  IF i < n THEN RootIsNaN(e)
                   ELSE /\ ((\A x \in w : IsFinite(x)) /\ n >= 2
                                /\ Gt(WindowSpread(result.arg, n, i), Zero)) =>
                               IsWindowSharpe(e, result.arg, n, i)
                        /\ (n = 1 \/ w = {Zero}) => RootIsNaN(e)

\* Window 2 over valid returns: a defined entry that is not 0 and, later,
\* an absent one over two zero returns.
C9_Witness ==
    /\ result.op = "get_rolling_sharpe"
    /\ result.window = 2
    /\ FiniteAboveMinusOne(result.arg)
    /\ Len(result.arg) >= 3
    /\ result.val[2].v.sgn # 0
    /\ IsFinite(result.val[2].v.sq)
    /\ RootIsNaN(result.val[3].v)

\* The benchmark rows inside the configured date range, in file order.
RowsInRange ==
    LET config == dir.json.algorithmConfiguration
    IN  SelectIdx(benchmark.rows,
                  {i \in 1..Len(benchmark.rows) :
                       /\ config.startDate # NoDate
                       /\ config.endDate # NoDate
                       /\ config.startDate <= benchmark.rows[i].datetime
                       /\ benchmark.rows[i].datetime <= config.endDate})

\* An instant as seconds since the epoch.
Secs(t) == t.day * SecondsPerDay + t.sec

\* The rows that carry a benchmark return (all but the first) at or
\* before instant t.
ReturnRowsUpTo(t) ==
    {k \in 2..Len(RowsInRange) : RowsInRange[k].datetime <= Secs(t)}

\* Value x is the benchmark return at the latest benchmark instant that is
\* not after t.
IsLatestBenchmarkReturn(x, t) ==
    /\ ReturnRowsUpTo(t) # {}
    /\ LET k == SetMax(ReturnRowsUpTo(t))
       IN  Mul(Add(One, x), Q(RowsInRange[k - 1].close)) = Q(RowsInRange[k].close)

\* get_benchmark_returns just returned a series.
GotBenchmark ==
    /\ Did("get_benchmark_returns")
    /\ result.val.set
    /\ _returns.set

\* C10 (as claimed), for a benchmark that has a return in the date range:
\* the series get_benchmark_returns returns has the index and the length
\* of the strategy return series, and its entry at t is the benchmark
\* return at the latest benchmark instant <= t.
C10_BenchmarkSameIndex ==
    (GotBenchmark /\ Len(RowsInRange) >= 2) =>
        /\ Len(result.val.val) = Len(_returns.val)
        /\ \A i \in 1..Len(result.val.val) :
               /\ result.val.val[i].t = _returns.val[i].t
               /\ IsLatestBenchmarkReturn(result.val.val[i].v, result.val.val[i].t)

\* C10 (amended): the series get_benchmark_returns returns lies on the
\* strategy return instants that have a benchmark return instant at or
\* before them, in order (the strategy return series without its leading
\* instants that precede the first benchmark return), and its entry at t
\* is the benchmark return at the latest benchmark instant <= t; index and
\* length equal those of the strategy return series exactly when no
\* strategy return instant precedes the first benchmark return instant.
C10_BenchmarkAlignedAmended ==
    GotBenchmark =>
        LET aligned == result.val.val
            returns == _returns.val
            dropped == Len(returns) - Len(aligned)
        IN  /\ dropped >= 0
            /\ \A i \in 1..dropped : ReturnRowsUpTo(returns[i].t) = {}
            /\ \A i \in 1..Len(aligned) :
                   /\ aligned[i].t = returns[dropped + i].t
                   /\ IsLatestBenchmarkReturn(aligned[i].v, aligned[i].t)
            /\ Index(aligned) = Index(returns) <=>
                   \A i \in 1..Len(returns) : ReturnRowsUpTo(returns[i].t) # {}

\* An aligned series shorter than the strategy's, with an entry carried
\* forward from an earlier benchmark instant.
C10_Witness ==
    /\ GotBenchmark
    /\ Len(result.val.val) >= 1
    /\ Len(result.val.val) < Len(_returns.val)
    /\ \E i \in 1..Len(result.val.val) :
           LET t == result.val.val[i].t
           IN  RowsInRange[SetMax(ReturnRowsUpTo(t))].datetime < Secs(t)

\* C11 (as claimed): in every report of calculate_metrics, Sharpe Ratio is
\* Annual Return / Volatility when Volatility > 0 and the literal 0
\* otherwise, and it is a finite number.
C11_SharpeRatio ==
    Did("calculate_metrics") =>
        LET vol == Report["Volatility"]
            sharpe == Report["Sharpe Ratio"]
        IN  /\ sharpe = IF RootGtZero(vol)
                        THEN Quot(Report["Annual Return"], vol) ELSE LitZero
            /\ sharpe.kind = "quot" =>
                   AnnualIsFinite(sharpe.num) /\ IsFinite(sharpe.den.sq)

\* A return below 0.
IsLoss(e) == Lt(e.v, Zero)

\* The strictly negative returns of the argument, in order.
Losses == SelectSeq(result.arg, IsLoss)

RatioSign(x) == IF x = LitZero THEN 0 ELSE AnnualSign(x.num) * x.den.sgn

\* C13: in every report of calculate_metrics, Calmar Ratio is Annual
\* Return / |Max Drawdown| when Max Drawdown < 0, its denominator then
\* being positive (never zero) so that it has the sign of a finite Annual
\* Return, and it is the literal 0 when Max Drawdown is 0.
C13_CalmarRatio ==
    Did("calculate_metrics") =>
        LET max_dd == Report["Max Drawdown"]
            ann == Report["Annual Return"]
            calmar == Report["Calmar Ratio"]
        IN  /\ Lt(max_dd, Zero) =>
                   /\ calmar.kind = "quot"
                   /\ calmar.num = ann
                   /\ calmar.den.sgn = 1
                   /\ calmar.den.sq = Mul(max_dd, max_dd)
                   /\ calmar.den.sq # Zero
                   /\ AnnualIsFinite(ann) => RatioSign(calmar) = AnnualSign(ann)
            /\ max_dd = Zero => calmar = LitZero
            /\ calmar.kind = "quot" => Lt(max_dd, Zero)

\* A report for valid returns that lose overall and have a drawdown: a
\* negative Calmar Ratio.
C13_Witness ==
    /\ Did("calculate_metrics")
    /\ FiniteAboveMinusOne(result.arg)
    /\ Lt(Report["Max Drawdown"], Zero)
    /\ AnnualSign(Report["Annual Return"]) = 0 - 1
    /\ RatioSign(Report["Calmar Ratio"]) = 0 - 1

\* A step that is a call of op on the generator: the files stay as they
\* are and the call is recorded.
CallOf(op) == result'.op = op /\ UNCHANGED <<dir, benchmark>>

\* C14: a call of load_backtest that finds nothing cached raises
\* FileNotFoundError exactly when the directory holds no results file
\* ([0-9]*.json), and then leaves _backtest_data unset, so that a later
\* call scans again; when the directory holds one it returns the parsed
\* content of that file and caches it; a call with a cached document
\* returns that document.
C14_LoadBacktest ==
    [][CallOf("load_backtest") =>
           IF _backtest_data.set
           THEN /\ result'.err = "none"
                /\ result'.val = _backtest_data.val
                /\ UNCHANGED _backtest_data
           ELSE IF ~dir.present
           THEN /\ result'.err = "FileNotFoundError"
                /\ ~_backtest_data'.set
           ELSE /\ result'.err = "none"
                /\ result'.val = dir.json
                /\ _backtest_data' = Some(dir.json)]_vars

\* load_backtest succeeded on a directory that held no results file when
\* the generator was constructed.
C14_Witness ==
    /\ Did("load_backtest")
    /\ dir.present
    /\ result.val = dir.json
    /\ _backtest_data = Some(dir.json)

\* The run of main is over.
Finished == cli.pc \in {"returned", "exited"}

\* The run reported text and has done nothing else.
FailedEarly(text) ==
    /\ cli.pc = "exited"
    /\ cli.stderr[1][2] = text
    /\ ~cli.constructed
    /\ cli.rendered = <<>>
    /\ ~cli.written

\* C15: every run of main that ends on a failure path has written one
\* message starting with 'Error:' to stderr and exits with status 1; a
\* missing backtest path, a backtest path that is no directory and a
\* missing --benchmark file are reported in that order, before a generator
\* is constructed, a renderer called or an output written; an exception of
\* loading or rendering is reported likewise; main returns normally only
\* after the renderer's generate completed.
C15_CliFailures ==
    /\ cli.pc = "exited" =>
           /\ cli.status = Some(1)
           /\ Len(cli.stderr) = 1
           /\ Head(cli.stderr[1]) = "Error:"
    /\ ~Finished =>
           /\ cli.status = None
           /\ cli.stderr = <<>>
           /\ cli.rendered = <<>>
           /\ ~cli.written
    /\ cli.pc \in {"exists", "is_dir", "benchmark", "format", "construct"} =>
           ~cli.constructed
    /\ Finished =>
           IF cli.path = "absent" THEN FailedEarly("Backtest directory not found")
           ELSE IF cli.path = "file" THEN FailedEarly("Not a directory")
           ELSE IF benchmark.path = "missing"
                THEN FailedEarly("Benchmark file not found")
           ELSE /\ cli.constructed
                /\ Len(cli.rendered) = 1
                /\ cli.pc = "returned" <=> cli.written
                /\ ~dir.present =>
                       cli.pc = "exited" /\ cli.stderr[1][2] = "FileNotFoundError"
    /\ cli.pc = "returned" =>
           /\ cli.status = None
           /\ cli.stderr = <<>>
           /\ _returns.set

\* A run on a backtest path that is a file, with a --benchmark path to
\* nothing: 'Not a directory' is what is reported.
C15_Witness ==
    /\ cli.pc = "exited"
    /\ cli.path = "file"
    /\ benchmark.path = "missing"
    /\ cli.stderr = <<<<"Error:", "Not a directory">>>>
    /\ cli.status = Some(1)

Hourly == (36525 * 24) \div 100
Supplied == {252, Hourly}

\* The instant k seconds after t, within the day of t.
LaterBy(t, k) == [day |-> t.day, sec |-> t.sec + k]

\* The returns of s with every instant one second later.
Shifted(s) == [i \in 1..Len(s) |-> [t |-> LaterBy(s[i].t, 1), v |-> s[i].v]]

\* The returns of s with the inner instants moved to the seconds right
\* after the first one.
Bunched(s) ==
    [i \in 1..Len(s) |->
        [t |-> IF i = 1 \/ i = Len(s) THEN s[i].t ELSE LaterBy(s[1].t, i - 1),
         v |-> s[i].v]]

\* All returns of the argument are finite numbers.
ArgFinite == \A i \in 1..Len(result.arg) : IsFinite(result.arg[i].v)

Memoized ==
    {"load_backtest", "extract_equity_curve", "get_returns", "get_config",
     "get_benchmark_returns"}

\* C18 (as claimed): once a results file has been loaded, a call of a
\* memoized operation returns what the call of the same operation before
\* it returned, whatever was written to the files in between.
C18_LaterCallsAgree ==
    [][(_backtest_data.set /\ result.op \in Memoized /\ CallOf(result.op)) =>
           (result'.err = result.err /\ result'.val = result.val)]_vars

\* What a generator without caches computes from the results document doc:
\* the equity, the returns and the configuration.
FreshEquity(doc) == EquityOf(doc.values)
FreshReturns(doc) == DropNa(PctChange(FreshEquity(doc)))

\* The benchmark returns a generator without caches computes from the
\* results document doc and the benchmark file b.
FreshBenchmarkReturns(doc, b) ==
    LET prices == load_benchmark(b, doc.algorithmConfiguration.startDate,
                                 doc.algorithmConfiguration.endDate)
    IN  DropNa(ReindexFfill(DropNa(PctChange(prices.val)),
                            Index(FreshReturns(doc))))

\* The caches ec and rt hold what a recomputation from the loaded
\* document bd gives.
CachesAreFresh(bd, ec, rt) ==
    /\ ec.set => ec.val = FreshEquity(bd.val)
    /\ rt.set => rt.val = FreshReturns(bd.val)

\* C18 (amended): the results file is read once, by the first call that
\* finds one, and from then on load_backtest, extract_equity_curve,
\* get_returns and get_config return, in any order and whatever is written
\* to the directory later, what a recomputation from that document gives;
\* get_benchmark_returns returns None as long as it finds no benchmark
\* file, and the series it first computes, from the benchmark file as it
\* is at that call, is what every later call returns.
C18_TransparentOnceLoaded ==
    [][/\ (~_backtest_data.set /\ _backtest_data'.set) =>
              _backtest_data'.val = dir.json
       /\ _backtest_data.set => UNCHANGED _backtest_data
       /\ _benchmark_returns.set => UNCHANGED _benchmark_returns
       /\ CachesAreFresh(_backtest_data', _equity_curve', _returns')
       /\ (~_benchmark_returns.set /\ _benchmark_returns'.set) =>
              /\ benchmark.path = "file"
              /\ _benchmark_returns'.val =
                     FreshBenchmarkReturns(_backtest_data'.val, benchmark)
       /\ (\E op \in Memoized : CallOf(op)) =>
              IF ~_backtest_data'.set
              THEN result'.err = "FileNotFoundError" /\ ~dir.present
              ELSE /\ result'.err = "none"
                   /\ CallOf("load_backtest") =>
                          result'.val = _backtest_data'.val
                   /\ CallOf("extract_equity_curve") =>
                          result'.val = FreshEquity(_backtest_data'.val)
                   /\ CallOf("get_returns") =>
                          result'.val = FreshReturns(_backtest_data'.val)
                   /\ CallOf("get_config") =>
                          result'.val = _backtest_data'.val.algorithmConfiguration
                   /\ CallOf("get_benchmark_returns") =>
                          IF _benchmark_returns'.set
                          THEN result'.val = _benchmark_returns'
                          ELSE result'.val = None /\ benchmark.path # "file"]_vars

\* get_returns answered from the document first loaded although the
\* directory now holds another results file, and the benchmark series is
\* not the one the present benchmark file gives.
C18_Witness ==
    /\ Did("get_returns")
    /\ dir.present
    /\ _backtest_data.set
    /\ _backtest_data.val # dir.json
    /\ result.val = FreshReturns(_backtest_data.val)
    /\ result.val # FreshReturns(dir.json)
    /\ _benchmark_returns.set
    /\ benchmark.path = "file"
    /\ _benchmark_returns.val # FreshBenchmarkReturns(_backtest_data.val, benchmark)

\* The operations of the metrics engine.
Metrics == {"calculate_metrics", "get_drawdown_series", "get_rolling_sharpe"}

\* C19: a call of calculate_metrics, get_drawdown_series or
\* get_rolling_sharpe leaves _backtest_data, _equity_curve, _returns and
\* _benchmark_returns as they are (it loads nothing and computes no
\* benchmark series), and what it returns is the function of its arguments
\* alone.
C19_MetricsArePure ==
    [][(\E op \in Metrics : CallOf(op)) =>
           /\ UNCHANGED <<_backtest_data, _equity_curve, _returns,
                          _benchmark_returns>>
           /\ CallOf("calculate_metrics") =>
                  [err |-> result'.err, val |-> result'.val] =
                      calculate_metrics(result'.arg)
           /\ CallOf("get_drawdown_series") =>
                  result'.val = get_drawdown_series(result'.arg)
           /\ CallOf("get_rolling_sharpe") =>
                  result'.val = get_rolling_sharpe(result'.arg, result'.window)]_vars

\* A report for the benchmark's returns, which are not the strategy's,
\* with the directory holding another results file than the one loaded.
C19_Witness ==
    /\ Did("calculate_metrics")
    /\ _benchmark_returns.set
    /\ _returns.set
    /\ result.arg = _benchmark_returns.val
    /\ result.arg # _returns.val
    /\ _backtest_data.val # dir.json

\* A cache is set only if the one it is computed from is.
Depends(bd, ec, rt, br) ==
    /\ rt.set => ec.set
    /\ ec.set => bd.set
    /\ br.set => rt.set

\* C20: in every reachable state, also after calls that raised or stopped
\* part-way, _returns is set only if _equity_curve is, _equity_curve only
\* if _backtest_data is and _benchmark_returns only if _returns is; and no
\* step clears or replaces a cache that is set.
C20_CacheDependency ==
    [][/\ Depends(_backtest_data, _equity_curve, _returns, _benchmark_returns)
       /\ Depends(_backtest_data', _equity_curve', _returns',
                  _benchmark_returns')
       /\ _backtest_data.set => UNCHANGED _backtest_data
       /\ _equity_curve.set => UNCHANGED _equity_curve
       /\ _returns.set => UNCHANGED _returns
       /\ _benchmark_returns.set => UNCHANGED _benchmark_returns]_vars

\* All four caches are set, and both files have since been replaced.
C20_Witness ==
    /\ _backtest_data.set
    /\ _equity_curve.set
    /\ _returns.set
    /\ _benchmark_returns.set
    /\ _backtest_data.val # dir.json
    /\ _benchmark_returns.val # FreshBenchmarkReturns(_backtest_data.val, benchmark)

\* The series s loses on its first return, by less than everything, and
\* is flat afterwards.
LosesFirstOnly(s) ==
    /\ Len(s) >= 1
    /\ IsFinite(s[1].v)
    /\ Lt(s[1].v, Zero)
    /\ Gt(s[1].v, Neg(One))
    /\ \A i \in 2..Len(s) : s[i].v = Zero

\* C21: the drawdown is measured from the first return's cumulative value,
\* not from the starting capital: for finite returns > -1 the first entry
\* of get_drawdown_series is 0 whatever the sign of the first return, and
\* for a series that loses on its first return only the drawdown series is
\* all zero and every report has Max Drawdown 0 and Calmar Ratio 0.
C21_DrawdownFromFirstReturn ==
    /\ (result.op = "get_drawdown_series" /\ FiniteAboveMinusOne(result.arg)
            /\ Len(result.arg) >= 1) =>
           result.val[1].v = Zero
    /\ (result.op = "get_drawdown_series" /\ LosesFirstOnly(result.arg)) =>
           /\ Len(result.val) = Len(result.arg)
           /\ \A i \in 1..Len(result.val) : result.val[i].v = Zero
    /\ (Did("calculate_metrics") /\ LosesFirstOnly(result.arg)) =>
           /\ Report["Max Drawdown"] = Zero
           /\ Report["Calmar Ratio"] = LitZero

\* A report for the returns [-1/2, 0, 0].
C21_Witness ==
    /\ Did("calculate_metrics")
    /\ LosesFirstOnly(result.arg)
    /\ Len(result.arg) = 3
    /\ result.arg[1].v = <<0 - 1, 2>>
    /\ Report["Max Drawdown"] = Zero
    /\ Report["Calmar Ratio"] = LitZero

====
